---- MODULE Spec2Model ----
(***************************************************************************)
(* Model of the realtime transcription hook of BabelScribe                 *)
(* (src/src/hooks/useRealtimeTranscription.ts): the WebSocket session, the *)
(* audio frame handler, the auto-commit scheduler (deadline timeout and    *)
(* 1 Hz countdown interval), the inbound event handlers, and the two       *)
(* translation paths.                                                      *)
(*                                                                         *)
(* Time advances in whole seconds (Tick).  Timers shorter than a second    *)
(* (the 100 ms re-arm and the 500 ms translation delay) are pending        *)
(* callbacks; the 100 ms ones run before the next whole second passes.     *)
(* A React render (and the effects that follow it) is the step Render:     *)
(* between a setState and the render the closures and isRecordingRef       *)
(* still hold the values of the previous render.  A pending render is      *)
(* committed before the next whole second passes.  The user translates a   *)
(* transcript from the rendered list: translateTranscript reads the list   *)
(* as of its call.                                                         *)
(* AudioRecord.stop() returns a promise nobody awaits: frames recorded     *)
(* before the recorder stopped may still be delivered after it.  After the *)
(* unmount (cleanup) only timers, sockets and the recorder act.            *)
(***************************************************************************)
EXTENDS Integers, Sequences, FiniteSets, TLC

VARIABLES
    conn,                        \* readyState of every WebSocket created so far
    wsRef,                       \* wsRef.current: 0 is null, else a connection
    isRecording,                 \* React state isRecording (latest value set)
    renderedIsRecording,         \* isRecording as captured by the callbacks of the last render
    isRecordingRef,              \* isRecordingRef.current
    audioOn,                     \* AudioRecord is started and delivering frames
    lateFrames,                  \* frames recorded before a stop() are still to be delivered
    hasSentAudio,                \* React state hasSentAudio
    audioChunksSinceLastCommit,  \* audioChunksSinceLastCommit.current
    autoCommitCountdown,         \* React state autoCommitCountdown
    countdownIntervalRef,        \* countdownIntervalRef.current is non-null
    intervals,                   \* number of setInterval timers running in the runtime
    commitTimeoutRef,            \* commitTimeoutRef.current is non-null
    timeouts,                    \* pending 10 s setTimeout timers of the runtime
    graceTimers,                 \* pending 100 ms re-arm setTimeout timers
    sent,                        \* messages the last handler sent on a WebSocket
    finalTranscripts,            \* React state finalTranscripts (newest first)
    interimTranscript,           \* React state interimTranscript
    nextId,                      \* number of transcript ids generated so far
    pendingAuto,                 \* pending 500 ms timers that call performAutoTranslation
    inflight,                    \* translation requests awaiting their response
    outcome,                     \* what the last explicit translate call reported
    mounted,                     \* the component using the hook is mounted
    apiKey,                      \* option apiKey
    languageA, languageB,        \* options languageA, languageB of the last render
    startLang,                   \* <<languageA, languageB>> captured by the memoized startRecording
    wsLang,                      \* <<languageA, languageB>> captured by each ws.onmessage
    wsKey,                       \* apiKey captured by each ws.onmessage (in its performAutoTranslation)
    inputAudioBuffer             \* per socket: chunks the server has in its input audio buffer

vars == <<conn, wsRef, isRecording, renderedIsRecording, isRecordingRef, audioOn, lateFrames,
          hasSentAudio, audioChunksSinceLastCommit, autoCommitCountdown,
          countdownIntervalRef, intervals, commitTimeoutRef, timeouts, graceTimers,
          sent, finalTranscripts, interimTranscript, nextId,
          pendingAuto, inflight, outcome, mounted, apiKey, languageA, languageB, startLang,
          wsLang, wsKey, inputAudioBuffer>>

sessionVars == <<conn, wsRef, isRecording, audioOn, lateFrames, hasSentAudio,
                 audioChunksSinceLastCommit>>
timerVars == <<autoCommitCountdown, countdownIntervalRef, intervals,
               commitTimeoutRef, timeouts>>
transcriptVars == <<finalTranscripts, interimTranscript, nextId, pendingAuto>>
configVars == <<apiKey, languageA, languageB, startLang>>

----------------------------------------------------------------------------
(* Bounds of the model *)

MaxConns == 2        \* WebSockets created in one run
MaxChunks == 2       \* audio frames counted between two commits
MaxGrace == 1        \* pending 100 ms re-arm timers
MaxIds == 2          \* transcripts created in one run
MaxInterim == 2      \* deltas held in the interim text
MaxInflight == 2     \* translation requests in flight
SessionIds == 1      \* transcripts created in one run of the session specification
SessionInterim == 1  \* deltas held in the interim text in the session specification
RuleIds == 1         \* transcripts created in one run of the auto-translation rule

(* Program constants *)

HORIZON == 10                \* setAutoCommitCountdown(10), setTimeout(..., 10000)
MIN_CHUNKS_FOR_100MS == 1

Conns == 1..MaxConns

----------------------------------------------------------------------------
(* Texts are sequences of tokens: string concatenation is \o, trim() drops *)
(* the leading and trailing blanks, the empty string is <<>> (falsy).      *)

Blank == " "
NoText == <<>>

RECURSIVE TrimStart(_)
TrimStart(s) == IF s # <<>> /\ Head(s) = Blank THEN TrimStart(Tail(s)) ELSE s

RECURSIVE TrimEnd(_)
TrimEnd(s) ==
    IF s # <<>> /\ s[Len(s)] = Blank THEN TrimEnd(SubSeq(s, 1, Len(s) - 1)) ELSE s

TrimNothing(s) == s

Trim(s) == TrimEnd(TrimStart(s))

----------------------------------------------------------------------------
(* Language tables *)

NoCode == ""         \* null / undefined / "" : all falsy

languageNames ==
    [eng |-> "English", spa |-> "Spanish", fra |-> "French",
     deu |-> "German", ita |-> "Italian", por |-> "Portuguese",
     rus |-> "Russian", jpn |-> "Japanese", kor |-> "Korean",
     cmn |-> "Chinese", ara |-> "Arabic", hin |-> "Hindi", nld |-> "Dutch",
     swe |-> "Swedish", nor |-> "Norwegian", dan |-> "Danish",
     fin |-> "Finnish", pol |-> "Polish", ces |-> "Czech",
     hun |-> "Hungarian", ron |-> "Romanian", bul |-> "Bulgarian",
     hrv |-> "Croatian", slk |-> "Slovak", slv |-> "Slovenian",
     est |-> "Estonian", lav |-> "Latvian", lit |-> "Lithuanian",
     ell |-> "Greek", tur |-> "Turkish", heb |-> "Hebrew", tha |-> "Thai",
     vie |-> "Vietnamese", ind |-> "Indonesian", msa |-> "Malay",
     tgl |-> "Filipino", ukr |-> "Ukrainian", cat |-> "Catalan",
     eus |-> "Basque", glg |-> "Galician", und |-> "Unknown"]

mapping ==
    [eng |-> "en", spa |-> "es", fra |-> "fr", deu |-> "de", ita |-> "it",
     por |-> "pt", rus |-> "ru", jpn |-> "ja", kor |-> "ko", cmn |-> "zh",
     ara |-> "ar", hin |-> "hi", nld |-> "nl", swe |-> "sv", nor |-> "no",
     dan |-> "da", fin |-> "fi", pol |-> "pl", ces |-> "cs", hun |-> "hu",
     ron |-> "ro", bul |-> "bg", hrv |-> "hr", slk |-> "sk", slv |-> "sl",
     est |-> "et", lav |-> "lv", lit |-> "lt", ell |-> "el", tur |-> "tr",
     heb |-> "he", tha |-> "th", vie |-> "vi", ind |-> "id", msa |-> "ms",
     tgl |-> "tl", ukr |-> "uk", cat |-> "ca", eus |-> "eu", glg |-> "gl"]

codeToName ==
    [en |-> "English", es |-> "Spanish", fr |-> "French", de |-> "German",
     it |-> "Italian", pt |-> "Portuguese", ru |-> "Russian",
     ja |-> "Japanese", ko |-> "Korean", zh |-> "Chinese", ar |-> "Arabic",
     hi |-> "Hindi", nl |-> "Dutch", sv |-> "Swedish", no |-> "Norwegian",
     da |-> "Danish", fi |-> "Finnish", pl |-> "Polish", cs |-> "Czech",
     hu |-> "Hungarian", ro |-> "Romanian", bg |-> "Bulgarian",
     hr |-> "Croatian", sk |-> "Slovak", sl |-> "Slovenian",
     et |-> "Estonian", lv |-> "Latvian", lt |-> "Lithuanian",
     el |-> "Greek", tr |-> "Turkish", he |-> "Hebrew", th |-> "Thai",
     vi |-> "Vietnamese", id |-> "Indonesian", ms |-> "Malay",
     tl |-> "Filipino", uk |-> "Ukrainian", ca |-> "Catalan",
     eu |-> "Basque", gl |-> "Galician"]

(* toUpperCase on the codes that are in no table *)
upperCase == [sco |-> "SCO", xx |-> "XX"]
ToUpperCase(s) == IF s \in DOMAIN upperCase THEN upperCase[s] ELSE s

getLanguageName(isoCode) ==
    IF isoCode \in DOMAIN languageNames THEN languageNames[isoCode]
    ELSE ToUpperCase(isoCode)

mapToLanguageCode(francCode) ==
    IF francCode \in DOMAIN mapping THEN mapping[francCode] ELSE NoCode

getLanguageNameFromCode(langCode) ==
    IF langCode \in DOMAIN codeToName THEN codeToName[langCode]
    ELSE ToUpperCase(langCode)

----------------------------------------------------------------------------
(* The runtime's timers and the auto-commit scheduler.  The operators take *)
(* and return the scheduler's state as a record, so that a handler that    *)
(* calls several of them in a row is their composition.                    *)

Sched ==
    [autoCommitCountdown |-> autoCommitCountdown,
     countdownIntervalRef |-> countdownIntervalRef,
     intervals |-> intervals,
     commitTimeoutRef |-> commitTimeoutRef,
     timeouts |-> timeouts]

SetSched(s) ==
    /\ autoCommitCountdown' = s.autoCommitCountdown
    /\ countdownIntervalRef' = s.countdownIntervalRef
    /\ intervals' = s.intervals
    /\ commitTimeoutRef' = s.commitTimeoutRef
    /\ timeouts' = s.timeouts

(* A pending 10 s timeout: the seconds left, and whether it is the one     *)
(* commitTimeoutRef.current refers to.                                     *)
Timeout(left, tracked) == [left |-> left, tracked |-> tracked]

(* if (commitTimeoutRef.current) clearTimeout(commitTimeoutRef.current) *)
clearTimeoutOfRef(s) ==
    IF s.commitTimeoutRef
    THEN [s EXCEPT !.timeouts = {t \in @ : ~t.tracked}]
    ELSE s

(* Mutant: the ref is set to null and the timeout is left pending *)
forgetCommitTimeout(s) == [s EXCEPT !.commitTimeoutRef = FALSE]

(* if (commitTimeoutRef.current) { clearTimeout(...); ... = null } *)
clearCommitTimeout(s) == [clearTimeoutOfRef(s) EXCEPT !.commitTimeoutRef = FALSE]

(* commitTimeoutRef.current = setTimeout(..., 10000) *)
setCommitTimeout(s) ==
    [s EXCEPT !.timeouts = {Timeout(t.left, FALSE) : t \in @}
                               \cup {Timeout(HORIZON, TRUE)},
              !.commitTimeoutRef = TRUE]

(* countdownIntervalRef.current = setInterval(..., 1000), after           *)
(* setAutoCommitCountdown(10)                                              *)
setCountdownInterval(s) ==
    [s EXCEPT !.autoCommitCountdown = HORIZON,
              !.intervals = @ + 1,
              !.countdownIntervalRef = TRUE]

clearCountdown(s) ==
    [s EXCEPT !.intervals = IF s.countdownIntervalRef THEN @ - 1 ELSE @,
              !.countdownIntervalRef = FALSE,
              !.autoCommitCountdown = 0]

(* Mutant: the pending timeout is not cleared before the new one is set *)
startAutoCommitTimerNoClear(s) ==
    LET s2 == IF ~s.countdownIntervalRef THEN setCountdownInterval(s) ELSE s
    IN  setCommitTimeout(s2)

startAutoCommitTimer(s) ==
    LET s1 == clearTimeoutOfRef(s)
        s2 == IF ~s1.countdownIntervalRef THEN setCountdownInterval(s1) ELSE s1
    IN  setCommitTimeout(s2)

(* Mutant: a reset that leaves a running countdown alone *)
resetKeepsCountdown(s) ==
    LET s1 == clearTimeoutOfRef(s)
        s2 == IF ~s1.countdownIntervalRef THEN setCountdownInterval(s1) ELSE s1
    IN  setCommitTimeout(s2)

(* resetAutoCommitTimer up to its setTimeout: both timers torn down, the   *)
(* countdown and the deadline started anew                                 *)
resetAutoCommitTimer(s) ==
    setCommitTimeout(setCountdownInterval(clearCountdown(clearTimeoutOfRef(s))))

(* Mutant: the callback without its floor at 0 *)
countdownTickNoFloor(prev) == prev - 1

(* The callback of the countdown interval *)
countdownTick(prev) == IF prev <= 1 THEN 0 ELSE prev - 1

RECURSIVE Iterate(_, _)
Iterate(n, prev) == IF n = 0 THEN prev ELSE Iterate(n - 1, countdownTick(prev))

----------------------------------------------------------------------------
(* WebSocket messages *)

Msg(c, type) == [ws |-> c, type |-> type]

WsIsOpen == wsRef # 0 /\ conn[wsRef] = "open"

(* What the server does with the messages of a step: an append adds a      *)
(* chunk to the input audio buffer of its socket, a commit empties it.     *)
Delivered ==
    inputAudioBuffer' =
        [c \in Conns |->
            IF \E i \in 1..Len(sent') :
                  sent'[i].ws = c /\ sent'[i].type = "input_audio_buffer.commit"
            THEN 0
            ELSE inputAudioBuffer[c]
                 + Cardinality({i \in 1..Len(sent') :
                       sent'[i].ws = c /\ sent'[i].type = "input_audio_buffer.append"})]

(* Mutant: the commit message is sent without the minimum of one chunk *)
CommitSendsAnyBuffer == WsIsOpen

(* The guard of the commit message, in commit() and inline in the deadline *)
(* callbacks.                                                              *)
CommitSends == WsIsOpen /\ audioChunksSinceLastCommit >= MIN_CHUNKS_FOR_100MS

(* Mutant: the chunk counter is not reset after the message *)
commitKeepsCounter ==
    /\ sent' = IF CommitSends THEN <<Msg(wsRef, "input_audio_buffer.commit")>>
               ELSE <<>>
    /\ audioChunksSinceLastCommit' = audioChunksSinceLastCommit
    /\ hasSentAudio' = IF CommitSends THEN FALSE ELSE hasSentAudio
    /\ SetSched(clearCountdown(clearCommitTimeout(Sched)))

(* Mutant: the timers are cleared only when the message was sent *)
commitCancelsOnSend ==
    /\ sent' = IF CommitSends THEN <<Msg(wsRef, "input_audio_buffer.commit")>>
               ELSE <<>>
    /\ audioChunksSinceLastCommit' =
           IF CommitSends THEN 0 ELSE audioChunksSinceLastCommit
    /\ hasSentAudio' = IF CommitSends THEN FALSE ELSE hasSentAudio
    /\ SetSched(IF CommitSends THEN clearCountdown(clearCommitTimeout(Sched))
                ELSE Sched)

(* commit(): the message, the counter and the flag; then both timers off *)
commit ==
    /\ sent' = IF CommitSends THEN <<Msg(wsRef, "input_audio_buffer.commit")>>
               ELSE <<>>
    /\ audioChunksSinceLastCommit' =
           IF CommitSends THEN 0 ELSE audioChunksSinceLastCommit
    /\ hasSentAudio' = IF CommitSends THEN FALSE ELSE hasSentAudio
    /\ SetSched(clearCountdown(clearCommitTimeout(Sched)))

----------------------------------------------------------------------------
(* Transcripts and translation requests *)

NoLogprobs == <<>>

(* The logprobs found at one of the places the handler looks in *)
extractLogprobs(shape) == IF shape = "none" THEN NoLogprobs ELSE <<"token">>

(* newTranscript: its id is unique, new Date() is the arrival of the event, *)
(* numbered in arrival order                                               *)
Transcript(id, text, francCode, logprobs) ==
    [id |-> id,
     timestamp |-> id,
     text |-> text,
     originalText |-> NoText,
     detectedLanguage |-> francCode,
     detectedLanguageName |-> getLanguageName(francCode),
     logprobs |-> logprobs]

(* setTimeout(() => performAutoTranslation(id, text, code, name), 500) *)
(* with the apiKey its performAutoTranslation holds                        *)
AutoCall(id, text, code, name, key) ==
    [transcriptId |-> id, transcriptText |-> text,
     targetLangCode |-> code, targetLangName |-> name, apiKey |-> key]

(* A request to the chat completions endpoint: the user message and the    *)
(* language named in the system prompt.                                    *)
Request(path, id, text, name) ==
    [path |-> path, transcriptId |-> id, content |-> text, targetLangName |-> name]

(* What the service answers to a request, before trim() *)
Translation(text, name) == <<"[", name, ":">> \o text \o <<"]">>

Content(r, kind) ==
    CASE kind = "ok" -> Translation(r.content, r.targetLangName)
      [] kind = "padded" ->
             <<Blank>> \o Translation(r.content, r.targetLangName) \o <<Blank>>
      [] OTHER -> <<Blank>>

(* response.ok and a non-empty translatedText *)
SucceededAlways(r, kind) == TRUE

Succeeded(r, kind) == kind # "fail" /\ Trim(Content(r, kind)) # NoText

(* `${translatedText} (${targetLangName})` *)
Display(translatedText, name) == translatedText \o <<Blank, "(", name, ")">>

(* The updater both paths pass to setFinalTranscripts *)
applyTranslationOverwriting(prev, id, translatedText, name) ==
    [i \in 1..Len(prev) |->
        IF prev[i].id = id
        THEN [prev[i] EXCEPT
                 !.text = Display(translatedText, name),
                 !.originalText = prev[i].text]
        ELSE prev[i]]

(* Mutant: the updater adds the translation when the transcript is gone *)
applyTranslationOrAdd(prev, id, translatedText, name) ==
    IF \E i \in 1..Len(prev) : prev[i].id = id
    THEN [i \in 1..Len(prev) |->
             IF prev[i].id = id
             THEN [prev[i] EXCEPT
                      !.text = Display(translatedText, name),
                      !.originalText = IF prev[i].originalText # NoText
                                       THEN prev[i].originalText
                                       ELSE prev[i].text]
             ELSE prev[i]]
    ELSE <<Transcript(id, Display(translatedText, name), "und", NoLogprobs)>> \o prev

(* Mutant: the updater leaves a transcript that is already translated *)
applyTranslationOnce(prev, id, translatedText, name) ==
    [i \in 1..Len(prev) |->
        IF prev[i].id = id /\ prev[i].originalText = NoText
        THEN [prev[i] EXCEPT
                 !.text = Display(translatedText, name),
                 !.originalText = prev[i].text]
        ELSE prev[i]]

(* Mutant: the updater rewrites every transcript of the list *)
applyTranslationToAll(prev, id, translatedText, name) ==
    [i \in 1..Len(prev) |->
        [prev[i] EXCEPT
            !.text = Display(translatedText, name),
            !.originalText = IF prev[i].originalText # NoText
                             THEN prev[i].originalText
                             ELSE prev[i].text]]

applyTranslation(prev, id, translatedText, name) ==
    [i \in 1..Len(prev) |->
        IF prev[i].id = id
        THEN [prev[i] EXCEPT
                 !.text = Display(translatedText, name),
                 !.originalText = IF prev[i].originalText # NoText
                                  THEN prev[i].originalText
                                  ELSE prev[i].text]
        ELSE prev[i]]

(* Mutant: the filter drops the oldest transcript, whatever the id *)
FilterOldest(prev, id) ==
    IF prev = <<>> THEN <<>> ELSE SubSeq(prev, 1, Len(prev) - 1)

(* prev.filter(t => t.id !== transcriptId) *)
RECURSIVE Filter(_, _)
Filter(prev, id) ==
    IF prev = <<>> THEN <<>>
    ELSE IF Head(prev).id # id THEN <<Head(prev)>> \o Filter(Tail(prev), id)
    ELSE Filter(Tail(prev), id)

(* The updater the completed handler passes to setFinalTranscripts *)
appendTranscript(prev, newTranscript) == prev \o <<newTranscript>>

prependTranscript(prev, newTranscript) == <<newTranscript>> \o prev

(* transcript.originalText || transcript.text *)
textToTranslateCurrent(transcript) == transcript.text

textToTranslate(transcript) ==
    IF transcript.originalText # NoText THEN transcript.originalText
    ELSE transcript.text

(* finalTranscripts.find((t) => t.id === transcriptId) *)
FindOrFirst(list, id) ==
    IF \E i \in 1..Len(list) : list[i].id = id
    THEN {i \in 1..Len(list) : list[i].id = id}
    ELSE {i \in 1..Len(list) : i = 1}

Find(list, id) == {i \in 1..Len(list) : list[i].id = id}

----------------------------------------------------------------------------
(* Handlers *)

Quiet == sent' = <<>> /\ outcome' = "none"

(* The render that follows a setState, and the effect that copies          *)
(* isRecording into isRecordingRef.  useCallback gives startRecording a    *)
(* new closure only when one of its dependencies changed.                  *)
Rerender ==
    /\ renderedIsRecording' = isRecording
    /\ isRecordingRef' = isRecording

RenderPending ==
    \/ renderedIsRecording # isRecording
    \/ isRecordingRef # isRecording

Render ==
    /\ RenderPending
    /\ Rerender
    /\ startLang' = IF renderedIsRecording # isRecording
                    THEN <<languageA, languageB>> ELSE startLang
    /\ Quiet
    /\ UNCHANGED <<sessionVars, timerVars, graceTimers, transcriptVars, inflight,
                   apiKey, languageA, languageB, mounted, wsLang, wsKey>>
    /\ Delivered

(* The user picks another Language A / Language B: the parent renders *)
setLanguages(a, b) ==
    /\ <<a, b>> # <<languageA, languageB>>
    /\ languageA' = a
    /\ languageB' = b
    /\ Rerender
    /\ startLang' = IF renderedIsRecording # isRecording THEN <<a, b>> ELSE startLang
    /\ Quiet
    /\ UNCHANGED <<sessionVars, timerVars, graceTimers, transcriptVars, inflight,
                   apiKey, mounted, wsLang, wsKey>>
    /\ Delivered

(* The user edits the API key: the parent renders, and startRecording and  *)
(* performAutoTranslation, which depend on apiKey, are created anew.       *)
setApiKey(key) ==
    /\ key # apiKey
    /\ apiKey' = key
    /\ Rerender
    /\ startLang' = <<languageA, languageB>>
    /\ Quiet
    /\ UNCHANGED <<sessionVars, timerVars, graceTimers, transcriptVars, inflight,
                   languageA, languageB, mounted, wsLang, wsKey>>
    /\ Delivered

startRecording ==
    /\ ~renderedIsRecording
    /\ \/ /\ WsIsOpen
          /\ hasSentAudio' = FALSE
          /\ isRecording' = TRUE
          /\ audioOn' = TRUE
          /\ UNCHANGED lateFrames
          /\ SetSched(startAutoCommitTimer(Sched))
          /\ UNCHANGED <<conn, wsRef, wsLang, wsKey, finalTranscripts, interimTranscript>>
       \/ /\ ~WsIsOpen
          /\ \E c \in Conns :
                /\ conn[c] = "unborn"
                /\ \A d \in Conns : conn[d] = "unborn" => c <= d
                /\ conn' = [conn EXCEPT ![c] = "connecting"]
                /\ wsRef' = c
                /\ wsLang' = [wsLang EXCEPT ![c] = startLang]
                /\ wsKey' = [wsKey EXCEPT ![c] = apiKey]
          /\ finalTranscripts' = <<>>
          /\ interimTranscript' = <<>>
          /\ hasSentAudio' = FALSE
          /\ UNCHANGED <<isRecording, audioOn, lateFrames, timerVars>>
    /\ Quiet
    /\ UNCHANGED <<renderedIsRecording, isRecordingRef, audioChunksSinceLastCommit,
                   graceTimers, nextId, pendingAuto, inflight,
                   configVars, mounted>>
    /\ Delivered

stopRecordingAndClose ==
    /\ renderedIsRecording
    /\ audioOn' = FALSE
    /\ lateFrames' = (audioOn \/ lateFrames)
    /\ isRecording' = FALSE
    /\ commit
    /\ outcome' = "none"
    /\ conn' = [c \in Conns |-> IF c = wsRef THEN "closed" ELSE conn[c]]
    /\ wsRef' = 0
    /\ UNCHANGED <<renderedIsRecording, isRecordingRef, graceTimers,
                   transcriptVars, inflight, configVars, mounted, wsLang, wsKey>>
    /\ Delivered

stopRecording ==
    /\ renderedIsRecording
    /\ audioOn' = FALSE
    /\ lateFrames' = (audioOn \/ lateFrames)
    /\ isRecording' = FALSE
    /\ commit
    /\ outcome' = "none"
    /\ UNCHANGED <<conn, wsRef, renderedIsRecording, isRecordingRef, graceTimers,
                   transcriptVars, inflight, configVars, mounted, wsLang, wsKey>>
    /\ Delivered

manualCommit ==
    /\ IF isRecordingRef
       THEN /\ graceTimers < MaxGrace
            /\ commit
            /\ graceTimers' = graceTimers + 1
       ELSE /\ sent' = <<>>
            /\ UNCHANGED <<hasSentAudio, audioChunksSinceLastCommit, timerVars,
                           graceTimers>>
    /\ outcome' = "none"
    /\ UNCHANGED <<conn, wsRef, isRecording, audioOn, lateFrames, renderedIsRecording,
                   isRecordingRef, transcriptVars, inflight,
                   configVars, mounted, wsLang, wsKey>>
    /\ Delivered

onopen(c) ==
    /\ conn[c] = "connecting"
    /\ conn' = [conn EXCEPT ![c] = "open"]
    /\ sent' = <<Msg(c, "transcription_session.update")>>
    /\ isRecording' = TRUE
    /\ audioOn' = TRUE
    /\ UNCHANGED lateFrames
    /\ SetSched(startAutoCommitTimer(Sched))
    /\ outcome' = "none"
    /\ UNCHANGED <<wsRef, hasSentAudio, audioChunksSinceLastCommit,
                   renderedIsRecording, isRecordingRef, graceTimers, transcriptVars, inflight, configVars, mounted, wsLang, wsKey>>
    /\ Delivered

(* Mutant: onclose leaves the scheduler running *)
oncloseKeepsTimers(c) ==
    /\ conn[c] \in {"connecting", "open", "closing"}
    /\ conn' = [conn EXCEPT ![c] = "closed"]
    /\ isRecording' = FALSE
    /\ wsRef' = 0
    /\ Quiet
    /\ UNCHANGED <<audioOn, lateFrames, hasSentAudio, audioChunksSinceLastCommit,
                   renderedIsRecording, isRecordingRef, timerVars, graceTimers, transcriptVars, inflight, configVars, mounted, wsLang, wsKey>>
    /\ Delivered

(* The connection fails or is closed by the server: onerror only logs *)
onclose(c) ==
    /\ conn[c] \in {"connecting", "open", "closing"}
    /\ conn' = [conn EXCEPT ![c] = "closed"]
    /\ isRecording' = FALSE
    /\ wsRef' = 0
    /\ SetSched(clearCountdown(clearCommitTimeout(Sched)))
    /\ Quiet
    /\ UNCHANGED <<audioOn, lateFrames, hasSentAudio, audioChunksSinceLastCommit,
                   renderedIsRecording, isRecordingRef, graceTimers, transcriptVars, inflight, configVars, mounted, wsLang, wsKey>>
    /\ Delivered

(* Mutant: the frame is forwarded and not counted *)
onAudioDataUncounted ==
    /\ audioOn \/ lateFrames
    /\ sent' = IF WsIsOpen THEN <<Msg(wsRef, "input_audio_buffer.append")>> ELSE <<>>
    /\ hasSentAudio' = (WsIsOpen \/ hasSentAudio)
    /\ outcome' = "none"
    /\ UNCHANGED <<conn, wsRef, isRecording, audioOn, lateFrames, renderedIsRecording,
                   audioChunksSinceLastCommit, isRecordingRef, timerVars, graceTimers,
                   transcriptVars, inflight, configVars, mounted, wsLang, wsKey>>
    /\ Delivered

(* AudioRecord.on('data'): one frame from the microphone *)
onAudioData ==
    /\ audioOn \/ lateFrames
    /\ IF WsIsOpen
       THEN /\ audioChunksSinceLastCommit < MaxChunks
            /\ sent' = <<Msg(wsRef, "input_audio_buffer.append")>>
            /\ hasSentAudio' = TRUE
            /\ audioChunksSinceLastCommit' = audioChunksSinceLastCommit + 1
       ELSE /\ sent' = <<>>
            /\ UNCHANGED <<hasSentAudio, audioChunksSinceLastCommit>>
    /\ outcome' = "none"
    /\ UNCHANGED <<conn, wsRef, isRecording, audioOn, lateFrames, renderedIsRecording,
                   isRecordingRef, timerVars, graceTimers, transcriptVars, inflight, configVars, mounted, wsLang, wsKey>>
    /\ Delivered

(* AudioRecord.stop() is not awaited: the frames recorded before the       *)
(* recorder stopped are delivered after stopRecording has returned, until  *)
(* the promise of stop() resolves.                                         *)
onAudioStopped ==
    /\ lateFrames
    /\ lateFrames' = FALSE
    /\ Quiet
    /\ UNCHANGED <<conn, wsRef, isRecording, audioOn, hasSentAudio,
                   audioChunksSinceLastCommit, renderedIsRecording, isRecordingRef,
                   timerVars, graceTimers, transcriptVars, inflight, configVars, mounted,
                   wsLang, wsKey>>
    /\ Delivered

(* The cleanup of the unmount effect.  ws.close() leaves the socket        *)
(* closing until its onclose runs; no render and no effect follows, so     *)
(* isRecordingRef keeps its value.                                         *)
cleanup ==
    /\ mounted
    /\ mounted' = FALSE
    /\ SetSched(clearCountdown(clearTimeoutOfRef(Sched)))
    /\ conn' = [c \in Conns |->
                   IF c = wsRef /\ conn[c] \in {"connecting", "open"}
                   THEN "closing" ELSE conn[c]]
    /\ audioOn' = FALSE
    /\ lateFrames' = (audioOn \/ lateFrames)
    /\ Quiet
    /\ UNCHANGED <<wsRef, isRecording, hasSentAudio, audioChunksSinceLastCommit,
                   renderedIsRecording, isRecordingRef, graceTimers,
                   transcriptVars, inflight, configVars, wsLang, wsKey>>
    /\ Delivered

(* One second passes: every running countdown interval calls its callback  *)
(* and every pending 10 s timeout is a second closer.  The 100 ms re-arm   *)
(* timers, the timeouts that are due and a pending render run first.       *)
Tick ==
    /\ graceTimers = 0
    /\ mounted => ~RenderPending
    /\ \A t \in timeouts : t.left > 0
    /\ intervals > 0 \/ timeouts # {}
    /\ autoCommitCountdown' = Iterate(intervals, autoCommitCountdown)
    /\ timeouts' = {Timeout(t.left - 1, t.tracked) : t \in timeouts}
    /\ Quiet
    /\ UNCHANGED <<sessionVars, renderedIsRecording, isRecordingRef,
                   countdownIntervalRef, intervals, commitTimeoutRef, graceTimers,
                   transcriptVars, inflight, configVars, mounted, wsLang, wsKey>>
    /\ Delivered

(* The callback of the 10 s timeout (the same text in startAutoCommitTimer *)
(* and in resetAutoCommitTimer): the inline commit, both timers off, and   *)
(* the 100 ms re-arm if still recording.                                   *)
deadline(t) ==
    /\ t \in timeouts
    /\ t.left = 0
    /\ sent' = IF CommitSends THEN <<Msg(wsRef, "input_audio_buffer.commit")>>
               ELSE <<>>
    /\ audioChunksSinceLastCommit' =
           IF CommitSends THEN 0 ELSE audioChunksSinceLastCommit
    /\ hasSentAudio' = IF CommitSends THEN FALSE ELSE hasSentAudio
    /\ SetSched(clearCountdown(clearCommitTimeout(
                    [Sched EXCEPT !.timeouts = @ \ {t}])))
    /\ graceTimers' = IF isRecordingRef THEN graceTimers + 1 ELSE graceTimers
    /\ outcome' = "none"
    /\ UNCHANGED <<conn, wsRef, isRecording, audioOn, lateFrames, renderedIsRecording,
                   isRecordingRef, transcriptVars, inflight,
                   configVars, mounted, wsLang, wsKey>>
    /\ Delivered

(* Mutant: the re-arm callback does not start the scheduler *)
rearmIdle ==
    /\ graceTimers > 0
    /\ graceTimers' = graceTimers - 1
    /\ Quiet
    /\ UNCHANGED <<sessionVars, renderedIsRecording, isRecordingRef, timerVars, transcriptVars, inflight, configVars, mounted, wsLang, wsKey>>
    /\ Delivered

(* The callback of a 100 ms re-arm timer *)
rearm ==
    /\ graceTimers > 0
    /\ graceTimers' = graceTimers - 1
    /\ SetSched(IF isRecordingRef THEN startAutoCommitTimer(Sched) ELSE Sched)
    /\ Quiet
    /\ UNCHANGED <<sessionVars, renderedIsRecording, isRecordingRef, transcriptVars, inflight, configVars, mounted, wsLang, wsKey>>
    /\ Delivered

(* Mutant: the delta replaces the interim text *)
replaceByDelta(prev, delta) == delta

(* setInterimTranscript((prev) => prev + data.delta) *)
appendDelta(prev, delta) == prev \o delta

(* ws.onmessage, conversation.item.input_audio_transcription.delta *)
onDelta(c, delta) ==
    /\ conn[c] = "open"
    /\ IF delta # NoText
       THEN /\ Len(interimTranscript) < MaxInterim
            /\ interimTranscript' = appendDelta(interimTranscript, delta)
            /\ SetSched(IF isRecordingRef THEN resetAutoCommitTimer(Sched)
                        ELSE Sched)
       ELSE UNCHANGED <<interimTranscript, timerVars>>
    /\ Quiet
    /\ UNCHANGED <<sessionVars, renderedIsRecording, isRecordingRef, graceTimers,
                   finalTranscripts, nextId, pendingAuto,
                   inflight, configVars, mounted, wsLang, wsKey>>
    /\ Delivered

(* The auto-translations the completed handler schedules for a transcript  *)
(* detected as francCode, with the languages its closure holds.            *)
autoTranslations(id, text, francCode, langA, langB, key) ==
    LET mappedLangCode == mapToLanguageCode(francCode)
    IN  IF mappedLangCode # NoCode /\ langA # NoCode /\ langB # NoCode
        THEN IF mappedLangCode = langB
             THEN {AutoCall(id, text, langA, getLanguageNameFromCode(langA), key)}
             ELSE IF mappedLangCode = langA
                  THEN {AutoCall(id, text, langB, getLanguageNameFromCode(langB), key)}
                  ELSE {}
        ELSE {}

(* ws.onmessage, conversation.item.input_audio_transcription.completed:    *)
(* transcript is the text as received, francCode what franc() detects in   *)
(* it, shape where the message carries its logprobs.                       *)
onCompleted(c, transcript, francCode, shape) ==
    /\ conn[c] = "open"
    /\ IF transcript # NoText /\ Trim(transcript) # NoText
       THEN /\ nextId < MaxIds
            /\ nextId' = nextId + 1
            /\ finalTranscripts' =
                   prependTranscript(finalTranscripts,
                       Transcript(nextId + 1, Trim(transcript), francCode,
                                  extractLogprobs(shape)))
            /\ interimTranscript' = <<>>
            /\ pendingAuto' = pendingAuto \cup
                   autoTranslations(nextId + 1, Trim(transcript), francCode,
                                    wsLang[c][1], wsLang[c][2], wsKey[c])
            /\ SetSched(IF isRecordingRef THEN resetAutoCommitTimer(Sched)
                        ELSE Sched)
       ELSE UNCHANGED <<transcriptVars, timerVars>>
    /\ Quiet
    /\ UNCHANGED <<sessionVars, renderedIsRecording, isRecordingRef, graceTimers, inflight, configVars, mounted, wsLang, wsKey>>
    /\ Delivered

(* ws.onmessage: JSON.parse and the switch on data.type.  A message that  *)
(* does not parse is caught and logged, a type without a case falls to     *)
(* default.                                                                *)
DeltaType == "conversation.item.input_audio_transcription.delta"
CompletedType == "conversation.item.input_audio_transcription.completed"

Parses(m) == "type" \in DOMAIN m

IsDeltaLoose(m) == Parses(m) /\ "delta" \in DOMAIN m

IsDelta(m) == Parses(m) /\ m.type = DeltaType

IsCompleted(m) == Parses(m) /\ m.type = CompletedType

onmessage(c, m) ==
    IF IsDelta(m) THEN onDelta(c, m.delta)
    ELSE IF IsCompleted(m) THEN onCompleted(c, m.transcript, m.franc, m.shape)
    ELSE /\ conn[c] = "open"
         /\ Quiet
         /\ UNCHANGED <<sessionVars, renderedIsRecording, isRecordingRef, timerVars,
                        graceTimers, transcriptVars, inflight, configVars, mounted,
                        wsLang, wsKey>>
         /\ Delivered

(* A 500 ms timer runs performAutoTranslation up to its fetch *)
performAutoTranslation(p) ==
    /\ p \in pendingAuto
    /\ pendingAuto' = pendingAuto \ {p}
    /\ IF p.apiKey = NoCode
       THEN UNCHANGED inflight
       ELSE /\ Cardinality(inflight) < MaxInflight
            /\ inflight' = inflight \cup
                   {Request("auto", p.transcriptId, p.transcriptText,
                            p.targetLangName)}
    /\ Quiet
    /\ UNCHANGED <<sessionVars, renderedIsRecording, isRecordingRef, timerVars,
                   graceTimers, finalTranscripts, interimTranscript, nextId, configVars, mounted, wsLang, wsKey>>
    /\ Delivered

(* translateTranscript up to its fetch *)
translateTranscript(id, name) ==
    /\ IF apiKey = NoCode
       THEN /\ outcome' = "API key is not set."
            /\ UNCHANGED inflight
       ELSE IF Find(finalTranscripts, id) = {}
       THEN /\ outcome' = "Transcript not found."
            /\ UNCHANGED inflight
       ELSE LET transcript ==
                    finalTranscripts[CHOOSE i \in Find(finalTranscripts, id) :
                        \A j \in Find(finalTranscripts, id) : i <= j]
            IN  /\ Cardinality(inflight) < MaxInflight
                /\ inflight' = inflight \cup
                       {Request("explicit", id, textToTranslate(transcript), name)}
                /\ outcome' = "pending"
    /\ sent' = <<>>
    /\ UNCHANGED <<sessionVars, renderedIsRecording, isRecordingRef, timerVars,
                   graceTimers, transcriptVars, configVars, mounted,
                   wsLang, wsKey>>
    /\ Delivered

(* The response to a translation request: kind "fail" is a network error   *)
(* or a non-ok status, the others a 200 with that content.                 *)
onResponse(r, kind) ==
    /\ r \in inflight
    /\ inflight' = inflight \ {r}
    /\ IF Succeeded(r, kind)
       THEN finalTranscripts' =
                applyTranslation(finalTranscripts, r.transcriptId,
                                 Trim(Content(r, kind)), r.targetLangName)
       ELSE UNCHANGED finalTranscripts
    /\ outcome' = IF r.path = "auto" THEN "none"
                  ELSE IF kind = "fail" THEN "OpenAI API error"
                  ELSE "returned"
    /\ sent' = <<>>
    /\ UNCHANGED <<sessionVars, renderedIsRecording, isRecordingRef, timerVars,
                   graceTimers, interimTranscript, nextId, pendingAuto, configVars, mounted, wsLang, wsKey>>
    /\ Delivered

deleteTranscript(id) ==
    /\ finalTranscripts' = Filter(finalTranscripts, id)
    /\ Quiet
    /\ UNCHANGED <<sessionVars, renderedIsRecording, isRecordingRef, timerVars,
                   graceTimers, interimTranscript, nextId, pendingAuto, inflight, configVars, mounted, wsLang, wsKey>>
    /\ Delivered

clearAllTranscripts ==
    /\ finalTranscripts' = <<>>
    /\ Quiet
    /\ UNCHANGED <<sessionVars, renderedIsRecording, isRecordingRef, timerVars,
                   graceTimers, interimTranscript, nextId, pendingAuto, inflight, configVars, mounted, wsLang, wsKey>>
    /\ Delivered

----------------------------------------------------------------------------
(* Inputs *)

Deltas == {<<"a">>, NoText}
Utterances == {<<"hallo">>, <<Blank, "hello", Blank>>, <<Blank>>, NoText}
FrancCodes == {"deu", "eng", "fra", "sco"}
TargetNames == {"German", "English"}
Kinds == {"ok", "padded", "blank", "fail"}

(* Messages of the server: one that is not JSON, two of types the switch   *)
(* has no case for (one of them carries a delta), a delta and a completed  *)
(* event.                                                                  *)
Inbound ==
    {[garbage |-> "{"],
     [type |-> "session.created"],
     [type |-> "response.audio_transcript.delta", delta |-> <<"a">>],
     [type |-> DeltaType, delta |-> <<"a">>],
     [type |-> CompletedType, transcript |-> <<"hallo">>, franc |-> "und",
      shape |-> "none"]}

(* The completed events of the translation specification: the text, what *)
(* franc() detects in it (the text of an event determines its detected     *)
(* language) and where the message carries its logprobs.                   *)
Spoken == {<<<<"hallo">>, "deu", "array">>,
           <<<<Blank, "bonjour", Blank>>, "fra", "none">>,
           <<<<Blank>>, "und", "none">>}

(* The state after the first render: App's defaults are Language A 'de',   *)
(* Language B 'en'.                                                        *)
InitWith(keys, codesA, codesB) ==
    /\ conn = [c \in Conns |-> "unborn"]
    /\ wsRef = 0
    /\ isRecording = FALSE
    /\ renderedIsRecording = FALSE
    /\ isRecordingRef = FALSE
    /\ audioOn = FALSE
    /\ lateFrames = FALSE
    /\ hasSentAudio = FALSE
    /\ audioChunksSinceLastCommit = 0
    /\ autoCommitCountdown = 0
    /\ countdownIntervalRef = FALSE
    /\ intervals = 0
    /\ commitTimeoutRef = FALSE
    /\ timeouts = {}
    /\ graceTimers = 0
    /\ sent = <<>>
    /\ finalTranscripts = <<>>
    /\ interimTranscript = <<>>
    /\ nextId = 0
    /\ pendingAuto = {}
    /\ inflight = {}
    /\ outcome = "none"
    /\ mounted = TRUE
    /\ apiKey \in keys
    /\ languageA \in codesA
    /\ languageB \in codesB
    /\ startLang = <<languageA, languageB>>
    /\ wsLang = [c \in Conns |-> <<NoCode, NoCode>>]
    /\ wsKey = [c \in Conns |-> NoCode]
    /\ inputAudioBuffer = [c \in Conns |-> 0]

Init == InitWith({"sk"}, {"de"}, {"en"})

(* The session, the audio path and the commit scheduler *)
Next ==
    \/ startRecording
    \/ stopRecording
    \/ manualCommit
    \/ Render
    \/ \E c \in Conns : onopen(c)
    \/ \E c \in Conns : onclose(c)
    \/ onAudioData
    \/ onAudioStopped
    \/ Tick
    \/ \E t \in timeouts : deadline(t)
    \/ rearm
    \/ \E c \in Conns, d \in Deltas :
          Len(interimTranscript) < SessionInterim /\ onDelta(c, d)
    \/ \E c \in Conns, u \in {<<"hallo">>, <<Blank>>, NoText} :
          /\ Trim(u) # NoText => nextId < SessionIds
          /\ onCompleted(c, u, "und", "none")
    \/ \E c \in Conns, m \in Inbound :
          /\ IsDelta(m) => Len(interimTranscript) < SessionInterim
          /\ IsCompleted(m) => nextId < SessionIds
          /\ onmessage(c, m)

Spec == Init /\ [][Next]_vars

(* The session up to and after the unmount of the component: the user and *)
(* the renderer act only while it is mounted.                              *)
NextU ==
    \/ mounted /\ startRecording
    \/ mounted /\ stopRecording
    \/ mounted /\ manualCommit
    \/ mounted /\ Render
    \/ cleanup
    \/ \E c \in Conns : onopen(c)
    \/ \E c \in Conns : onclose(c)
    \/ onAudioData
    \/ onAudioStopped
    \/ Tick
    \/ \E t \in timeouts : deadline(t)
    \/ rearm
    \/ \E c \in Conns, d \in Deltas :
          Len(interimTranscript) < SessionInterim /\ onDelta(c, d)

SpecU == Init /\ [][NextU]_vars

(* The credential: the user edits the API key before and during a        *)
(* session; the app starts a session only with a key.                      *)
Keys == {NoCode, "sk"}

InitK == InitWith({NoCode}, {"de"}, {"en"})

NextK ==
    \/ \E key \in Keys : setApiKey(key)
    \/ apiKey # NoCode /\ startRecording
    \/ Render
    \/ \E c \in Conns : onopen(c)
    \/ \E c \in Conns : onclose(c)
    \/ \E c \in Conns :
          nextId < RuleIds /\ onCompleted(c, <<"hallo">>, "deu", "none")
    \/ \E p \in pendingAuto : performAutoTranslation(p)
    \/ \E id \in 1..MaxIds, name \in TargetNames : translateTranscript(id, name)
    \/ \E r \in inflight, kind \in {"ok", "fail"} : onResponse(r, kind)

SpecK == InitK /\ [][NextK]_vars

(* The transcript list: finalized events with every kind of text, over     *)
(* sessions that start, open and close.  No second passes.                 *)
NextList ==
    \/ startRecording
    \/ stopRecording
    \/ Render
    \/ \E c \in Conns : onopen(c)
    \/ \E c \in Conns : onclose(c)
    \/ \E c \in Conns, u \in Utterances : onCompleted(c, u, "und", "none")

SpecList == Init /\ [][NextList]_vars

(* The auto-translation rule: finalized events in every detected language, *)
(* and the user changing Language A / Language B.  No request is sent.     *)
Configs == {<<"de", "en">>, <<"de", "fr">>, <<"en", "en">>, <<"de", NoCode>>}

NextL ==
    \/ startRecording
    \/ Render
    \/ \E cfg \in Configs : setLanguages(cfg[1], cfg[2])
    \/ \E c \in Conns : onopen(c)
    \/ \E c \in Conns : onclose(c)
    \/ \E c \in Conns, u \in {<<Blank, "hallo", Blank>>, NoText}, fc \in FrancCodes :
          nextId < RuleIds /\ onCompleted(c, u, fc, "none")

SpecL == Init /\ [][NextL]_vars

(* The two translation paths on the transcripts of a session: German is    *)
(* auto-translated to English, French is not.                              *)
NextT ==
    \/ startRecording
    \/ Render
    \/ \E c \in Conns : onopen(c)
    \/ \E c \in Conns : onclose(c)
    \/ \E c \in Conns, s \in Spoken : onCompleted(c, s[1], s[2], s[3])
    \/ \E p \in pendingAuto : performAutoTranslation(p)
    \/ \E id \in 1..MaxIds, name \in TargetNames : translateTranscript(id, name)
    \/ \E r \in inflight, kind \in Kinds : onResponse(r, kind)
    \/ \E id \in 1..MaxIds : deleteTranscript(id)
    \/ clearAllTranscripts

SpecT == Init /\ [][NextT]_vars

(* The interim text: deltas of two different texts and finalized events,   *)
(* over sessions that start, stop, resume and close.  No second passes.    *)
InterimDeltas == {<<"a">>, <<"b">>, NoText}

NextI ==
    \/ startRecording
    \/ stopRecording
    \/ Render
    \/ \E c \in Conns : onopen(c)
    \/ \E c \in Conns : onclose(c)
    \/ \E c \in Conns, d \in InterimDeltas : onDelta(c, d)
    \/ \E c \in Conns, u \in {<<"hallo">>, <<Blank>>, NoText} :
          /\ Trim(u) # NoText => nextId < SessionIds
          /\ onCompleted(c, u, "und", "none")
    \/ clearAllTranscripts

SpecI == Init /\ [][NextI]_vars

(* The race of the two translation paths: the user translates a transcript *)
(* while its auto-translation is in flight, and the two responses arrive   *)
(* in either order.                                                        *)
AutoInFlight(id) ==
    \E a \in inflight : a.path = "auto" /\ a.transcriptId = id

NextR ==
    \/ startRecording
    \/ Render
    \/ \E c \in Conns : onopen(c)
    \/ \E c \in Conns : onclose(c)
    \/ \E c \in Conns, s \in Spoken : onCompleted(c, s[1], s[2], s[3])
    \/ \E p \in pendingAuto : performAutoTranslation(p)
    \/ \E id \in 1..MaxIds, name \in TargetNames :
          AutoInFlight(id) /\ translateTranscript(id, name)
    \/ \E r \in inflight, kind \in Kinds : onResponse(r, kind)

SpecR == Init /\ [][NextR]_vars

(* Finalized events in German, in French and blank, and deltas, during a   *)
(* session that is stopped and resumed.  No second passes.                 *)
NextS ==
    \/ startRecording
    \/ stopRecording
    \/ Render
    \/ \E c \in Conns : onopen(c)
    \/ \E c \in Conns : onclose(c)
    \/ onAudioData
    \/ onAudioStopped
    \/ \E c \in Conns, d \in Deltas :
          Len(interimTranscript) < SessionInterim /\ onDelta(c, d)
    \/ \E c \in Conns, s \in Spoken : onCompleted(c, s[1], s[2], s[3])

SpecS == Init /\ [][NextS]_vars

(* The commit cadence: a session with frames and timers and no inbound    *)
(* events.  The runtime runs a timer callback that is due, the recorder    *)
(* keeps delivering frames while it is on, and React commits a pending     *)
(* render.                                                                 *)
NextF ==
    \/ startRecording
    \/ stopRecording
    \/ Render
    \/ \E c \in Conns : onopen(c)
    \/ \E c \in Conns : onclose(c)
    \/ onAudioData
    \/ onAudioStopped
    \/ Tick
    \/ \E t \in timeouts : deadline(t)
    \/ rearm

SpecF ==
    /\ Init
    /\ [][NextF]_vars
    /\ WF_vars(Tick)
    /\ WF_vars(\E t \in timeouts : deadline(t))
    /\ WF_vars(rearm)
    /\ WF_vars(onAudioData)
    /\ WF_vars(Render)

----------------------------------------------------------------------------
(* Properties of the commit operation and of the commit scheduler,        *)
(* checked under Spec.                                                     *)

(* A step in which commit() is called *)
CommitCalled == stopRecording \/ (isRecordingRef /\ manualCommit)

(* A step in which the commit logic runs: commit(), or its inline copy in  *)
(* the deadline callback.                                                  *)
CommitRuns == CommitCalled \/ \E t \in timeouts : deadline(t)

CommitMessages(msgs) ==
    {i \in 1..Len(msgs) : msgs[i].type = "input_audio_buffer.commit"}

SchedulerIdle ==
    /\ ~commitTimeoutRef
    /\ ~countdownIntervalRef
    /\ timeouts = {}
    /\ intervals = 0
    /\ autoCommitCountdown = 0

(* C1: when the commit logic runs (manualCommit, stop or the deadline      *)
(* timer) with the connection open and at least one chunk counted, exactly *)
(* one commit message is sent, on the current connection, and afterwards   *)
(* the chunk counter is 0 and hasSentAudio is false.                       *)
C1_CommitSendsOnce ==
    [][(CommitRuns /\ WsIsOpen /\ audioChunksSinceLastCommit >= 1)
          => /\ Cardinality(CommitMessages(sent')) = 1
             /\ sent' = <<Msg(wsRef, "input_audio_buffer.commit")>>
             /\ audioChunksSinceLastCommit' = 0
             /\ hasSentAudio' = FALSE]_vars

C1_Witness ==
    /\ sent = <<Msg(wsRef, "input_audio_buffer.commit")>>
    /\ audioChunksSinceLastCommit = 0
    /\ ~hasSentAudio

(* C2: when the commit logic runs with the chunk counter at 0, no message  *)
(* is sent, the counter stays 0 and hasSentAudio keeps its value.          *)
C2_EmptyCommitIsNoOp ==
    [][(CommitRuns /\ audioChunksSinceLastCommit = 0)
          => /\ sent' = <<>>
             /\ audioChunksSinceLastCommit' = 0
             /\ hasSentAudio' = hasSentAudio]_vars

(* A commit with nothing counted has just run on an open connection: the   *)
(* re-arm it scheduled is pending and nothing was sent.                    *)
C2_Witness ==
    /\ WsIsOpen
    /\ isRecordingRef
    /\ graceTimers > 0
    /\ sent = <<>>
    /\ audioChunksSinceLastCommit = 0
    /\ SchedulerIdle

(* C3: after every call of commit(), whether or not the message was sent,  *)
(* the scheduler is idle (no timeout, no interval, countdown 0), and       *)
(* calling commit() again in that state sends nothing and leaves the       *)
(* scheduler as it is.                                                     *)
C3_CommitCancelsScheduler ==
    [][CommitCalled
          => /\ SchedulerIdle'
             /\ ~CommitSends'
             /\ (clearCountdown(clearCommitTimeout(Sched)))' = Sched']_vars

(* commit() was called with the scheduler armed and nothing to send *)
C3_Witness ==
    /\ SchedulerIdle
    /\ graceTimers > 0
    /\ sent = <<>>
    /\ isRecordingRef
    /\ ~WsIsOpen

(* C7: the countdown is always an integer in 0..10; a tick of the running  *)
(* interval takes it down by one, and leaves it at 0 when it is 0.         *)
C7_CountdownRange ==
    [][/\ autoCommitCountdown' \in 0..HORIZON
       /\ (Tick /\ intervals > 0)
             => autoCommitCountdown' =
                    IF autoCommitCountdown > 0 THEN autoCommitCountdown - 1
                    ELSE 0]_vars

(* The interval is still running at 0, seconds before the deadline *)
C7_Witness ==
    /\ autoCommitCountdown = 0
    /\ countdownIntervalRef
    /\ \E t \in timeouts : t.left >= 1

----------------------------------------------------------------------------
(* Properties of the transcript list, checked under SpecList.              *)

(* A step in which a finalized event with non-empty trimmed text arrives *)
FinalizedNonEmpty ==
    \E c \in Conns, u \in Utterances :
        Trim(u) # NoText /\ onCompleted(c, u, "und", "none")

(* A step in which a finalized event with empty or blank text arrives *)
FinalizedEmpty ==
    \E c \in Conns, u \in Utterances :
        Trim(u) = NoText /\ onCompleted(c, u, "und", "none")

(* The transcripts of the list are in the reverse of their creation order *)
NewestFirst(list) ==
    \A i, j \in 1..Len(list) : i < j => list[i].id > list[j].id

(* No session after the first has been started: the list was empty when   *)
(* the first finalized event arrived and has not been emptied since.       *)
FirstSession == \A c \in Conns : c > 1 => conn[c] = "unborn"

(* A step in which startRecording begins a new session *)
NewSession == ~WsIsOpen /\ startRecording

----------------------------------------------------------------------------
(* Properties of the auto-translation rule, checked under SpecL.           *)

(* The auto-translations a step schedules *)
Scheduled == pendingAuto' \ pendingAuto

(* The one auto-translation of the newly created transcript to the         *)
(* language with code target                                               *)
OneTo(target, text) ==
    {AutoCall(nextId', text, target, getLanguageNameFromCode(target), apiKey)}

(* C9: a finalized event with non-empty text whose detected language maps  *)
(* to the configured Language A, with Language B configured to another     *)
(* code, schedules exactly one auto-translation of the new transcript, to  *)
(* Language B's display name; detected Language B schedules exactly one to *)
(* Language A's.                                                           *)
C9_MatchSchedulesOne ==
    [][\A c \in Conns, u \in Utterances, fc \in FrancCodes :
          (/\ onCompleted(c, u, fc, "none")
           /\ Trim(u) # NoText
           /\ languageA # NoCode
           /\ languageB # NoCode
           /\ languageA # languageB)
          => /\ mapToLanguageCode(fc) = languageA =>
                    Scheduled = OneTo(languageB, Trim(u))
             /\ mapToLanguageCode(fc) = languageB =>
                    Scheduled = OneTo(languageA, Trim(u))]_vars

(* C10: a finalized event whose detected language has no entry in the      *)
(* code-bridging table, or maps to neither configured language, or that    *)
(* arrives while either language is not configured, schedules no           *)
(* auto-translation; its transcript is created all the same.               *)
C10_NoMatchSchedulesNone ==
    [][\A c \in Conns, u \in Utterances, fc \in FrancCodes :
          (/\ onCompleted(c, u, fc, "none")
           /\ Trim(u) # NoText
           /\ \/ mapToLanguageCode(fc) = NoCode
              \/ mapToLanguageCode(fc) \notin {languageA, languageB}
              \/ languageA = NoCode
              \/ languageB = NoCode)
          => /\ Scheduled = {}
             /\ Len(finalTranscripts') = Len(finalTranscripts) + 1]_vars

----------------------------------------------------------------------------
(* Properties of the two translation paths, checked under SpecT.           *)

(* The text a transcript was created with: in SpecT what was said can be   *)
(* read from the language detected in it.                                  *)
CreatedWith(t) ==
    IF t.detectedLanguage = "deu" THEN <<"hallo">> ELSE <<"bonjour">>

(* A text that shows a translation *)
Translated(text) == \E i \in 1..Len(text) : text[i] = "["

(* C5: the originalText of a transcript, once set, is the text the         *)
(* transcript was created with and no later completion of either path      *)
(* changes it.                                                             *)
C5_OriginalTextSetOnce ==
    /\ [](\A i \in 1..Len(finalTranscripts) :
            LET t == finalTranscripts[i]
            IN  /\ t.originalText # NoText => t.originalText = CreatedWith(t)
                /\ t.originalText = NoText => t.text = CreatedWith(t))
    /\ [][\A i \in 1..Len(finalTranscripts), j \in 1..Len(finalTranscripts') :
            (/\ finalTranscripts[i].id = finalTranscripts'[j].id
             /\ finalTranscripts[i].originalText # NoText)
            => finalTranscripts'[j].originalText =
                   finalTranscripts[i].originalText]_vars

(* A transcript whose auto-translation is over and that an explicit        *)
(* translation has just translated again                                   *)
C5_Witness ==
    \E i \in 1..Len(finalTranscripts) :
        /\ finalTranscripts[i].originalText = <<"hallo">>
        /\ finalTranscripts[i].text =
               Display(Translation(<<"hallo">>, "German"), "German")
        /\ outcome = "returned"
        /\ pendingAuto = {}
        /\ inflight = {}

(* C6: the text of every request to the translation service, of either     *)
(* path, is the untranslated source of its transcript, never the output of *)
(* a translation.                                                          *)
C6_SubmitsSource ==
    \A r \in inflight :
        /\ ~Translated(r.content)
        /\ r.content \in {<<"hallo">>, <<"bonjour">>}
        /\ \A i \in 1..Len(finalTranscripts) :
              finalTranscripts[i].id = r.transcriptId =>
                  r.content = CreatedWith(finalTranscripts[i])

(* An explicit request for a transcript that shows a translation *)
C6_Witness ==
    \E r \in inflight, i \in 1..Len(finalTranscripts) :
        /\ r.path = "explicit"
        /\ finalTranscripts[i].id = r.transcriptId
        /\ Translated(finalTranscripts[i].text)
        /\ r.content = finalTranscripts[i].originalText

(* C11: translateTranscript called with a credential and an id that is not *)
(* in the transcript list fails with 'Transcript not found.', sends no     *)
(* translation request and leaves the transcript list unchanged.           *)
C11_MissingTranscriptFails ==
    [][\A id \in 1..MaxIds, name \in TargetNames :
          (/\ translateTranscript(id, name)
           /\ apiKey # NoCode
           /\ \A i \in 1..Len(finalTranscripts) : finalTranscripts[i].id # id)
          => /\ outcome' = "Transcript not found."
             /\ inflight' = inflight
             /\ finalTranscripts' = finalTranscripts]_vars

(* The failure, reported while another transcript is in the list *)
C11_Witness ==
    /\ outcome = "Transcript not found."
    /\ finalTranscripts # <<>>

----------------------------------------------------------------------------
(* Properties of the session, checked under Spec.                          *)

(* C12: a finalized event whose transcript text is missing, empty or blank *)
(* creates no transcript, leaves the interim text and the transcript list  *)
(* unchanged, schedules no auto-translation and leaves the commit          *)
(* scheduler as it is.                                                     *)
C12_EmptyFinalizedIsDiscarded ==
    [][\A c \in Conns, u \in {<<Blank>>, NoText} :
          onCompleted(c, u, "und", "none")
          => /\ finalTranscripts' = finalTranscripts
             /\ nextId' = nextId
             /\ interimTranscript' = interimTranscript
             /\ pendingAuto' = pendingAuto
             /\ Sched' = Sched]_vars

(* Where such an event shows: interim text is held and the countdown has   *)
(* run down from the horizon, while recording on the open connection.      *)
C12_Witness ==
    /\ WsIsOpen
    /\ isRecordingRef
    /\ interimTranscript # <<>>
    /\ countdownIntervalRef
    /\ autoCommitCountdown < HORIZON
    /\ sent = <<>>

(* C13: a frame from the audio source sends an append message and counts   *)
(* a chunk only if the recording flag is true and the connection is open;  *)
(* in every other state (after stop, after a close, while connecting) the  *)
(* frame is dropped: nothing is sent and the counter keeps its value.      *)
C13_AppendOnlyWhileRecording ==
    [][(onAudioData /\ ~(isRecording /\ WsIsOpen))
          => /\ sent' = <<>>
             /\ audioChunksSinceLastCommit' = audioChunksSinceLastCommit]_vars

(* The connections that are connecting or open *)
Live == {c \in Conns : conn[c] \in {"connecting", "open"}}

(* C14: at most one connection is connecting or open at any time, and      *)
(* wsRef refers to that connection, or is null when there is none.         *)
C14_OneLiveConnection ==
    /\ Cardinality(Live) <= 1
    /\ IF Live = {} THEN wsRef = 0 ELSE wsRef \in Live

(* The audio source may still deliver a frame *)
Delivering == audioOn \/ lateFrames

(* What stopRecording does to the audio buffer of the open connection *)
StopFlushes ==
    /\ audioChunksSinceLastCommit >= 1 =>
          /\ Cardinality(CommitMessages(sent')) = 1
          /\ Len(sent') = 1
          /\ sent'[1].ws = wsRef
          /\ audioChunksSinceLastCommit' = 0
    /\ audioChunksSinceLastCommit = 0 => sent' = <<>>
    /\ isRecording' = FALSE

(* C15: stopRecording while recording on an open connection sends exactly  *)
(* one commit and resets the chunk counter to 0 if a chunk is unflushed,   *)
(* and sends no commit if none is; either way the recording flag becomes   *)
(* false and frame delivery is stopped.                                    *)
C15_StopFlushesAndStops ==
    [][(stopRecording /\ WsIsOpen) => (StopFlushes /\ ~Delivering')]_vars

(* The part of C15 that holds: the final commit, the flag, and the call of *)
(* AudioRecord.stop().                                                     *)
StopFlushesAndCallsStop ==
    [][(stopRecording /\ WsIsOpen) => (StopFlushes /\ ~audioOn')]_vars

(* The state stopRecording leaves on an open connection, until the next    *)
(* start: not recording, the recorder stopped.                             *)
Stopped == WsIsOpen /\ ~isRecording /\ ~audioOn

(* A step of an inbound delta or finalized event, or of a 100 ms re-arm *)
LateEvent ==
    \/ \E c \in Conns, d \in Deltas : onDelta(c, d)
    \/ \E c \in Conns, u \in Utterances : onCompleted(c, u, "und", "none")
    \/ rearm

(* C16: stopRecording leaves both timers cancelled and the countdown 0,    *)
(* and until the next start no delta, no finalized event and no pending    *)
(* 100 ms re-arm arms a timer again.                                       *)
C16_StopKeepsSchedulerIdle ==
    [][/\ stopRecording => SchedulerIdle'
       /\ (Stopped /\ SchedulerIdle /\ LateEvent) => SchedulerIdle']_vars

(* The scheduler as an arm leaves it: the interval running and the tracked *)
(* deadline a full horizon away.                                           *)
Armed ==
    /\ countdownIntervalRef
    /\ intervals >= 1
    /\ commitTimeoutRef
    /\ Timeout(HORIZON, TRUE) \in timeouts

(* C17: stopRecording leaves every connection and wsRef as they are, and   *)
(* startRecording called while the connection of wsRef is open resumes on  *)
(* it: no connection is created, no message is sent, the transcript list   *)
(* is kept, isRecording becomes true and the scheduler is armed.           *)
C17_StopKeepsConnectionStartResumes ==
    [][/\ stopRecording => (conn' = conn /\ wsRef' = wsRef)
       /\ (startRecording /\ wsRef # 0 /\ conn[wsRef] = "open")
             => /\ conn' = conn
                /\ wsRef' = wsRef
                /\ sent' = <<>>
                /\ finalTranscripts' = finalTranscripts
                /\ isRecording'
                /\ audioOn'
                /\ Armed']_vars

(* A session resumed after a stop: its transcript is still in the list, no *)
(* second connection was created.                                          *)
C17_Witness ==
    /\ WsIsOpen
    /\ isRecording
    /\ audioOn
    /\ lateFrames
    /\ finalTranscripts # <<>>
    /\ Armed
    /\ \A c \in Conns : c # wsRef => conn[c] = "unborn"

----------------------------------------------------------------------------
(* Properties of the teardown, checked under SpecU.                        *)

(* C18: the cleanup closes the connection of wsRef and leaves no timer,    *)
(* and after it no timer is ever pending again and no commit is sent:      *)
(* neither a 100 ms re-arm that was pending at the unmount nor a late      *)
(* inbound event arms the scheduler.                                       *)
C18_TeardownIsFinal ==
    [][/\ cleanup =>
             /\ timeouts' = {}
             /\ intervals' = 0
             /\ wsRef # 0 => conn'[wsRef] \in {"closing", "closed"}
       /\ ~mounted =>
             /\ timeouts' = {}
             /\ intervals' = 0
             /\ CommitMessages(sent') = {}]_vars

----------------------------------------------------------------------------
(* Properties of the credential, checked under SpecK.                      *)

(* C19: with no API key configured neither translation path sends a        *)
(* request or changes the transcript list; translateTranscript fails with  *)
(* 'API key is not set.' and the auto-translation returns without a        *)
(* report.                                                                 *)
C19_NoKeyNoRequest ==
    [][/\ \A id \in 1..MaxIds, name \in TargetNames :
             (translateTranscript(id, name) /\ apiKey = NoCode)
             => /\ outcome' = "API key is not set."
                /\ inflight' = inflight
                /\ finalTranscripts' = finalTranscripts
       /\ \A p \in pendingAuto :
             (performAutoTranslation(p) /\ apiKey = NoCode)
             => /\ outcome' = "none"
                /\ inflight' = inflight
                /\ finalTranscripts' = finalTranscripts]_vars

----------------------------------------------------------------------------
(* Properties of failed translation requests, checked under SpecT.         *)

(* C20: when a translation request fails (network error or non-ok status)  *)
(* the transcript list is unchanged on both paths; the explicit path       *)
(* reports the failure to its caller, the auto path reports nothing.       *)
C20_FailureLeavesListAlone ==
    [][\A r \in inflight :
          onResponse(r, "fail")
          => /\ finalTranscripts' = finalTranscripts
             /\ r.path = "explicit" => outcome' = "OpenAI API error"
             /\ r.path = "auto" => outcome' = "none"]_vars

(* An explicit translation has just failed on a transcript that shows its  *)
(* source text                                                             *)
C20_Witness ==
    /\ outcome = "OpenAI API error"
    /\ \E i \in 1..Len(finalTranscripts) :
          /\ finalTranscripts[i].originalText = NoText
          /\ finalTranscripts[i].text = <<"hallo">>

----------------------------------------------------------------------------
(* Properties of the inbound messages, checked under Spec.                 *)

(* A message that does not parse or whose type is not one of the two       *)
(* event types                                                             *)
Unrecognized(m) ==
    \/ "type" \notin DOMAIN m
    \/ m.type \notin {DeltaType, CompletedType}

(* C21: an inbound message that cannot be parsed, or whose type is not a   *)
(* recognized event type, leaves the transcript list, the interim text,    *)
(* the recording flag, the chunk counter, the timers and the connection    *)
(* unchanged, so that later frames and events are handled as before.       *)
C21_UnrecognizedIsIgnored ==
    [][\A c \in Conns, m \in Inbound :
          (Unrecognized(m) /\ onmessage(c, m))
          => UNCHANGED <<sessionVars, renderedIsRecording, isRecordingRef,
                         timerVars, graceTimers, transcriptVars, inflight>>]_vars

(* Where such a message shows: recording on the open connection with a     *)
(* chunk counted and the countdown run down from the horizon.              *)
C21_Witness ==
    /\ WsIsOpen
    /\ isRecording
    /\ isRecordingRef
    /\ audioChunksSinceLastCommit >= 1
    /\ countdownIntervalRef
    /\ autoCommitCountdown < HORIZON
    /\ interimTranscript = <<>>
    /\ sent = <<>>
----------------------------------------------------------------------------
(* Properties of the manual commit and of the commit cadence.              *)

(* What the commit operation does to the session in a step *)
CommitEffect ==
    /\ sent' = IF CommitSends THEN <<Msg(wsRef, "input_audio_buffer.commit")>>
               ELSE <<>>
    /\ audioChunksSinceLastCommit' =
           IF CommitSends THEN 0 ELSE audioChunksSinceLastCommit
    /\ SchedulerIdle'

(* Nothing but the reported outcome changes *)
NoStateChange ==
    UNCHANGED <<sessionVars, renderedIsRecording, isRecordingRef, timerVars,
                graceTimers, transcriptVars, inflight, configVars>>

(* C22: manualCommit() while recording runs the commit operation, which    *)
(* cancels the scheduler, and after the grace delay the scheduler is armed *)
(* again from the full 10-second horizon provided recording is still true; *)
(* manualCommit() while not recording sends no message and changes no      *)
(* state.                                                                  *)
C22_ManualCommitRearms ==
    [][/\ manualCommit
          => IF isRecording
             THEN CommitEffect /\ graceTimers' = graceTimers + 1
             ELSE sent' = <<>> /\ NoStateChange
       /\ rearm
          => IF isRecording
             THEN Armed' /\ autoCommitCountdown' = HORIZON
             ELSE UNCHANGED timerVars]_vars

(* The same with "recording" read as the value of isRecordingRef *)
ManualCommitByRef ==
    [][/\ manualCommit
          => IF isRecordingRef
             THEN CommitEffect /\ graceTimers' = graceTimers + 1
             ELSE sent' = <<>> /\ NoStateChange
       /\ rearm
          => IF isRecordingRef
             THEN Armed' /\ autoCommitCountdown' = HORIZON
             ELSE UNCHANGED timerVars]_vars

(* Recording on the open connection *)
Steady == isRecording /\ WsIsOpen

(* Armed from the full horizon *)
ArmedFull == Armed /\ autoCommitCountdown = HORIZON

(* C23: while recording stays true and the connection stays open, every    *)
(* deadline firing performs a commit attempt and is eventually followed by *)
(* the scheduler being armed again from the full horizon; with fair timers *)
(* and frames that keep arriving and no inbound events, commit messages    *)
(* are sent infinitely often.                                              *)
C23_CommitCadence ==
    /\ [][\A t \in timeouts :
             (Steady /\ deadline(t))
             => /\ sent' = IF audioChunksSinceLastCommit >= MIN_CHUNKS_FOR_100MS
                           THEN <<Msg(wsRef, "input_audio_buffer.commit")>>
                           ELSE <<>>
                /\ graceTimers' = graceTimers + 1]_vars
    /\ (Steady /\ graceTimers > 0) ~> (ArmedFull \/ ~Steady)
    /\ <>[]Steady => []<>(CommitMessages(sent) # {})

(* A deadline has fired with frames counted, its commit message is sent    *)
(* and its re-arm is pending                                               *)
C23_Witness ==
    /\ Steady
    /\ graceTimers > 0
    /\ CommitMessages(sent) # {}
    /\ timeouts = {}

(* A step of a non-empty delta event or of a non-empty finalized event;    *)
(* its handler resets the scheduler when isRecordingRef.current is true    *)
ResetEvent ==
    \/ \E c \in Conns, d \in Deltas : d # NoText /\ onDelta(c, d)
    \/ \E c \in Conns, u \in Utterances :
          Trim(u) # NoText /\ onCompleted(c, u, "und", "none")
    \/ \E c \in Conns, m \in Inbound :
          /\ IsDelta(m) \/ IsCompleted(m)
          /\ onmessage(c, m)

(* The scheduler as a reset leaves it *)
FreshlyArmed ==
    /\ autoCommitCountdown = HORIZON
    /\ countdownIntervalRef
    /\ intervals = 1
    /\ commitTimeoutRef
    /\ timeouts = {Timeout(HORIZON, TRUE)}

(* C24: after a reset (a non-empty delta event or a non-empty finalized    *)
(* event while recording), from any prior scheduler state, the countdown   *)
(* is 10, the deadline is a full 10 seconds away, and exactly one tick     *)
(* timer and one deadline timer are pending; a second reset in a row       *)
(* leaves the state of the first.                                          *)
C24_ResetFromAnyState ==
    [][(isRecordingRef /\ ResetEvent)
       => /\ FreshlyArmed'
          /\ FreshlyArmed => UNCHANGED timerVars]_vars

(* Recording with frames counted, the transcript of a finalized event in   *)
(* the list and the scheduler as the reset of that event leaves it         *)
C24_Witness ==
    /\ isRecording
    /\ isRecordingRef
    /\ FreshlyArmed
    /\ Len(finalTranscripts) = 1
    /\ interimTranscript = <<>>
    /\ audioChunksSinceLastCommit >= 1

(* C25: the display countdown and the deadline timer stay in lockstep:     *)
(* whenever the scheduler is armed (the interval runs and the tracked      *)
(* deadline is pending), the countdown equals the whole seconds left until *)
(* the deadline fires, after any sequence of arm (also while armed),       *)
(* reset, tick and cancel.                                                 *)
C25_Lockstep ==
    (countdownIntervalRef /\ commitTimeoutRef)
    => \A t \in timeouts : t.tracked => autoCommitCountdown = t.left

----------------------------------------------------------------------------
(* Properties of the interim text, checked under SpecI.                    *)

(* C26: the interim text is the concatenation, in arrival order, of the    *)
(* deltas received since the most recent non-empty finalized event or the  *)
(* start of a new session, whichever is later: a delta event appends its   *)
(* delta, a non-empty finalized event and the start of a new session set   *)
(* the text to the empty string, and no other step changes it.             *)
C26_InterimIsDeltasSince ==
    [][/\ \A c \in Conns, d \in InterimDeltas :
             onDelta(c, d) => interimTranscript' = interimTranscript \o d
       /\ \A c \in Conns, u \in Utterances :
             (Trim(u) # NoText /\ onCompleted(c, u, "und", "none"))
             => interimTranscript' = <<>>
       /\ NewSession => interimTranscript' = <<>>
       /\ interimTranscript' # interimTranscript
          => \/ \E c \in Conns, d \in InterimDeltas : d # NoText /\ onDelta(c, d)
             \/ \E c \in Conns, u \in Utterances :
                   Trim(u) # NoText /\ onCompleted(c, u, "und", "none")
             \/ NewSession]_vars

(* Two deltas have arrived in this order after the finalized event that    *)
(* emptied the text                                                        *)
C26_Witness ==
    /\ interimTranscript = <<"b", "a">>
    /\ Len(finalTranscripts) = 1

----------------------------------------------------------------------------
(* Frame properties of the translations and of the deletions, checked      *)
(* under SpecT.                                                            *)

(* C27: a successful translation (auto or explicit) of transcript t        *)
(* changes only t: its text becomes "<translated> (<target language        *)
(* name>)" and its originalText becomes the text before the translation if *)
(* it was unset; the id, timestamp, detected language and confidence data  *)
(* of t, every other transcript, and the length and order of the list are  *)
(* unchanged.                                                              *)
C27_TranslationChangesOnlyT ==
    [][\A r \in inflight, kind \in Kinds :
          (Succeeded(r, kind) /\ onResponse(r, kind))
          => /\ Len(finalTranscripts') = Len(finalTranscripts)
             /\ \A i \in 1..Len(finalTranscripts) :
                   LET t == finalTranscripts[i]
                       u == finalTranscripts'[i]
                   IN  IF t.id = r.transcriptId
                       THEN /\ u.text = Trim(Content(r, kind))
                                            \o <<Blank, "(", r.targetLangName, ")">>
                            /\ u.originalText = IF t.originalText = NoText
                                                THEN t.text ELSE t.originalText
                            /\ u.id = t.id
                            /\ u.timestamp = t.timestamp
                            /\ u.detectedLanguage = t.detectedLanguage
                            /\ u.detectedLanguageName = t.detectedLanguageName
                            /\ u.logprobs = t.logprobs
                       ELSE u = t]_vars

(* Of two transcripts the older one, which carries confidence data, has    *)
(* been translated and the newer one has not                               *)
C27_Witness ==
    /\ Len(finalTranscripts) = 2
    /\ finalTranscripts[1].originalText = NoText
    /\ finalTranscripts[1].text = <<"bonjour">>
    /\ finalTranscripts[2].originalText = <<"hallo">>
    /\ finalTranscripts[2].text # <<"hallo">>
    /\ finalTranscripts[2].logprobs # NoLogprobs
    /\ finalTranscripts[2].timestamp = 1

(* C28: when an auto-translation and an explicit translation of the same   *)
(* transcript are in flight together, in either completion order the text  *)
(* is the result of the one that completed last and originalText is the    *)
(* original untranslated text of the transcript.  Under SpecR every        *)
(* explicit request is made while the auto request of the transcript is in *)
(* flight, and the transcripts with an auto request were spoken as         *)
(* "hallo": each successful response of the two writes its own result and  *)
(* leaves originalText at "hallo".                                         *)
C28_LastWriterWins ==
    [][\A r \in inflight, kind \in Kinds :
          (Succeeded(r, kind) /\ onResponse(r, kind))
          => \A i \in 1..Len(finalTranscripts) :
                finalTranscripts[i].id = r.transcriptId
                => /\ finalTranscripts'[i].text =
                          Trim(Content(r, kind))
                              \o <<Blank, "(", r.targetLangName, ")">>
                   /\ finalTranscripts'[i].originalText = <<"hallo">>]_vars

(* Both responses have arrived, the explicit one (to German) last: the     *)
(* transcript shows the German text                                        *)
C28_Witness ==
    /\ inflight = {}
    /\ pendingAuto = {}
    /\ outcome = "returned"
    /\ \E i \in 1..Len(finalTranscripts) :
          /\ finalTranscripts[i].text =
                 Translation(<<"hallo">>, "German") \o <<Blank, "(", "German", ")">>
          /\ finalTranscripts[i].originalText = <<"hallo">>

(* The auto response (to English) has arrived after the explicit one (to   *)
(* German) had returned                                                    *)
AutoWroteLast ==
    /\ inflight = {}
    /\ \E i \in 1..Len(finalTranscripts) :
          /\ finalTranscripts[i].text =
                 Translation(<<"hallo">>, "English") \o <<Blank, "(", "English", ")">>
          /\ finalTranscripts[i].originalText = <<"hallo">>
          /\ finalTranscripts[i].id = 1

(* The state outside the transcript list that a deletion could touch *)
DeletionFrame ==
    UNCHANGED <<interimTranscript, sessionVars, renderedIsRecording,
                isRecordingRef, timerVars, graceTimers, nextId, pendingAuto,
                inflight>>

----------------------------------------------------------------------------
(* Properties of the events that arrive after a stop, checked under SpecS. *)

(* What a non-empty finalized event does to the transcripts *)
FinalizedEffect(c, s) ==
    /\ Len(finalTranscripts') = Len(finalTranscripts) + 1
    /\ Tail(finalTranscripts') = finalTranscripts
    /\ Head(finalTranscripts').text = Trim(s[1])
    /\ Head(finalTranscripts').originalText = NoText
    /\ Head(finalTranscripts').detectedLanguage = s[2]
    /\ interimTranscript' = <<>>
    /\ pendingAuto' = pendingAuto \cup
           autoTranslations(nextId + 1, Trim(s[1]), s[2],
                            wsLang[c][1], wsLang[c][2], wsKey[c])

(* C30: a non-empty finalized event that arrives after stop() while the    *)
(* connection is still open creates a transcript at the head of the list,  *)
(* clears the interim text and applies the auto-translation rule, as while *)
(* recording; only the reset of the commit scheduler is skipped.           *)
C30_LateFinalizedEvent ==
    [][\A c \in Conns, s \in Spoken :
          (Trim(s[1]) # NoText /\ onCompleted(c, s[1], s[2], s[3]))
          => /\ FinalizedEffect(c, s)
             /\ ~isRecording => UNCHANGED timerVars]_vars

(* The same with the reset decided by isRecordingRef *)
LateFinalizedEventByRef ==
    [][\A c \in Conns, s \in Spoken :
          (Trim(s[1]) # NoText /\ onCompleted(c, s[1], s[2], s[3]))
          => /\ FinalizedEffect(c, s)
             /\ ~isRecordingRef => UNCHANGED timerVars
             /\ isRecordingRef => FreshlyArmed']_vars

----------------------------------------------------------------------------
(* Properties of the connection, of the frames and of the timers.          *)

(* A step in which a WebSocket is created *)
Opens == \E c \in Conns : conn[c] = "unborn" /\ conn'[c] # "unborn"

(* C31: when the connection closes (server close, error or network loss)   *)
(* the recording flag becomes false, the connection handle becomes null    *)
(* and both scheduler timers are cancelled with the countdown at 0;        *)
(* afterwards no connection is opened unless startRecording is called.     *)
C31_CloseEndsSession ==
    [][/\ \A c \in Conns :
             onclose(c) => /\ ~isRecording'
                           /\ wsRef' = 0
                           /\ SchedulerIdle'
                           /\ conn'[c] = "closed"
       /\ Opens => startRecording]_vars

(* The connection has closed during recording with the countdown run down  *)
(* and frames counted, and nothing has happened since                      *)
C31_Witness ==
    /\ \E c \in Conns : conn[c] = "closed"
    /\ \A c \in Conns : conn[c] \in {"closed", "unborn"}
    /\ wsRef = 0
    /\ ~isRecording
    /\ isRecordingRef
    /\ audioOn
    /\ audioChunksSinceLastCommit >= 1
    /\ SchedulerIdle

(* C32: a commit message is never sent on a connection to which no append  *)
(* message has been sent since the connection opened or since the previous *)
(* commit on it: the chunk counter that gates the commit counts only the   *)
(* frames appended to the buffer of the current connection, also after a   *)
(* connection closed with unflushed chunks and a new session was started.  *)
C32_CommitOnlyAfterAppend ==
    [][\A i \in 1..Len(sent') :
          sent'[i].type = "input_audio_buffer.commit"
          => /\ inputAudioBuffer[sent'[i].ws] >= 1
             /\ inputAudioBuffer[sent'[i].ws] = audioChunksSinceLastCommit]_vars

(* The commit message alone: sent only on a buffer that holds a chunk *)
CommitOnNonEmptyBuffer ==
    [][\A i \in 1..Len(sent') :
          sent'[i].type = "input_audio_buffer.commit"
          => inputAudioBuffer[sent'[i].ws] >= 1]_vars

(* C33: each audio frame delivered while recording on an open connection   *)
(* produces exactly one append message and increments the chunk counter by *)
(* exactly one, and the counter changes otherwise only where a commit      *)
(* message flushes it to 0, so that the chunks flushed by commits plus the *)
(* current counter equal the number of frames forwarded, across sessions   *)
(* and across a close.                                                     *)
C33_FramesCountedOnce ==
    [][/\ (WsIsOpen /\ onAudioData)
          => /\ sent' = <<Msg(wsRef, "input_audio_buffer.append")>>
             /\ audioChunksSinceLastCommit' = audioChunksSinceLastCommit + 1
       /\ CommitMessages(sent') # {}
          => /\ Cardinality(CommitMessages(sent')) = 1
             /\ audioChunksSinceLastCommit' = 0
       /\ audioChunksSinceLastCommit' # audioChunksSinceLastCommit
          => \/ WsIsOpen /\ onAudioData
             \/ CommitMessages(sent') # {}]_vars

(* A frame has been forwarded and counted in the second session, after the *)
(* first connection closed with a chunk that no commit had flushed         *)
C33_Witness ==
    /\ conn[1] = "closed"
    /\ wsRef = 2
    /\ conn[2] = "open"
    /\ isRecording
    /\ audioChunksSinceLastCommit = 2
    /\ inputAudioBuffer[2] = 1
    /\ sent = <<Msg(2, "input_audio_buffer.append")>>

----------------------------------------------------------------------------
(* Properties of the auto-translation rule and of late translations.       *)

(* C34: no auto-translation is scheduled whose target language is the      *)
(* detected (mapped) language of the transcript itself; in particular,     *)
(* with Language A and Language B set to the same code, a transcript       *)
(* detected in that language schedules none.  Checked under SpecL.         *)
C34_NoSameLanguageTranslation ==
    [][\A c \in Conns, u \in {<<Blank, "hallo", Blank>>, NoText}, fc \in FrancCodes :
          onCompleted(c, u, fc, "none")
          => \A p \in pendingAuto' \ pendingAuto :
                p.targetLangCode # mapToLanguageCode(fc)]_vars

(* The target codes of a set of scheduled auto-translations *)
Targets(calls) == {p.targetLangCode : p \in calls}

(* C35: the auto-translation decision for a finalized event uses the       *)
(* Language A and Language B configured at the moment the event is         *)
(* handled, also when they were changed after startRecording was created   *)
(* or after the connection was opened.  Checked under SpecL.               *)
C35_DecisionUsesCurrentLanguages ==
    [][\A c \in Conns, u \in Utterances, fc \in FrancCodes :
          (onCompleted(c, u, fc, "none") /\ Trim(u) # NoText)
          => Targets(Scheduled) =
                 Targets(autoTranslations(nextId + 1, Trim(u), fc,
                                          languageA, languageB, apiKey))]_vars

(* C36: a translation (auto or explicit) that completes after its          *)
(* transcript was deleted, or after the list was cleared, leaves the list  *)
(* as it is: the transcript is not added again and no other transcript is  *)
(* modified; no translation completion changes the length of the list.     *)
(* Checked under SpecT.                                                    *)
C36_LateTranslationIsDropped ==
    [][\A r \in inflight, kind \in Kinds :
          onResponse(r, kind)
          => /\ Len(finalTranscripts') = Len(finalTranscripts)
             /\ (\A i \in 1..Len(finalTranscripts) :
                    finalTranscripts[i].id # r.transcriptId)
                => finalTranscripts' = finalTranscripts]_vars

(* An explicit translation has returned after both transcripts of the      *)
(* session were deleted or the list was cleared                            *)
C36_Witness ==
    /\ outcome = "returned"
    /\ nextId = 2
    /\ finalTranscripts = <<>>
    /\ WsIsOpen

----------------------------------------------------------------------------
(* Invariants of the timers and of the recording flag.                     *)

(* C37: in every reachable state at most one deadline timer and at most    *)
(* one display-tick timer are pending, the deadline timer is pending       *)
(* exactly when the tick timer is running, and the countdown is 0 whenever *)
(* neither is running: no orphaned timer survives an arm, a reset, a       *)
(* commit, a close or the cleanup.  Checked under SpecU.                   *)
C37_OneTimerEach ==
    /\ Cardinality(timeouts) <= 1
    /\ intervals <= 1
    /\ timeouts # {} <=> intervals > 0
    /\ \A t \in timeouts : t.tracked /\ commitTimeoutRef
    /\ intervals > 0 => countdownIntervalRef
    /\ (timeouts = {} /\ intervals = 0) => autoCommitCountdown = 0

(* The scheduler armed by a second onopen while it was running, one second *)
(* after the first: still one timer of each kind                           *)
C37_Witness ==
    /\ conn[1] = "open"
    /\ conn[2] = "open"
    /\ intervals = 1
    /\ timeouts = {Timeout(HORIZON, TRUE)}
    /\ autoCommitCountdown = HORIZON - 1

(* C38: in every reachable state in which the recording flag is true, the  *)
(* connection handle is non-null and refers to a connection in the open    *)
(* state.  Checked under Spec.                                             *)
C38_RecordingHasOpenConnection ==
    isRecording => (wsRef # 0 /\ conn[wsRef] = "open")
====
